---- MODULE Spec2Model ----
(***************************************************************************)
(* Model of DependencyViewProvider (vscode-wpilib/src/dependencyView.ts):  *)
(* the provider's fields, the asynchronous refresh runs started by         *)
(* resolveWebviewView, the catalog fetch, the reconciliation of installed  *)
(* components against the catalog, the sort of each candidate list, the    *)
(* deduplication of the catalog and the message posted to the webview.     *)
(***************************************************************************)
EXTENDS Integers, Sequences, FiniteSets

\* ---------------------------------------------------------------- bounds
\* Spec: overlapping refresh runs over short inputs.
MaxStarts == 2
MaxInstalled == 1
MaxCatalog == 2
\* SpecRun: one refresh run over longer inputs.
RunMaxInstalled == 1
RunMaxCatalog == 3

\* ------------------------------------------------------------ data model
Undefined == "undefined"

UUIDs == {"X", "Y"}

\* Version strings as text; "1" and "1.0" differ textually and denote the
\* same release.
Versions == {"1", "1.0", "2"}

NameOf(u) == IF u = "X" THEN "LibX" ELSE "LibY"

\* IJsonDependency, the fields refresh reads.
InstalledDep(u, v) == [name |-> NameOf(u), uuid |-> u, version |-> v]

InstalledDeps == {InstalledDep(u, v) : u \in UUIDs, v \in Versions}

\* The name a catalog entry carries is a string of its own; the catalogs
\* drawn here name uuid X as the installed component of uuid Y is named and
\* the reverse, so that an equal name never comes with an equal uuid.
CatalogNameOf(u) == IF u = "X" THEN NameOf("Y") ELSE NameOf("X")

\* IJsonList
JsonDep(u, v) ==
    [path |-> "p", name |-> CatalogNameOf(u), version |-> v, uuid |-> u,
     description |-> "d", website |-> "w"]

WellFormed == {JsonDep(u, v) : u \in UUIDs, v \in Versions}

\* Decoded array elements that lack a required field.
Malformed ==
    {[JsonDep("X", "2") EXCEPT !.path = Undefined],
     [JsonDep("X", "2") EXCEPT !.name = Undefined],
     [JsonDep("X", "2") EXCEPT !.uuid = Undefined],
     [JsonDep("X", "2") EXCEPT !.version = Undefined],
     [JsonDep("X", "2") EXCEPT !.description = Undefined],
     [JsonDep("X", "2") EXCEPT !.website = Undefined]}

RECURSIVE SeqsUpTo(_, _)
SeqsUpTo(S, n) ==
    IF n = 0 THEN {<<>>}
    ELSE LET shorter == SeqsUpTo(S, n - 1)
         IN  shorter \cup {Append(s, e) : s \in {t \in shorter : Len(t) = n - 1}, e \in S}

InstalledLists(n) == SeqsUpTo(InstalledDeps, n)

\* Decoded JSON arrays a response body can hold.
Documents(n) == SeqsUpTo(WellFormed \cup Malformed, n)

\* ------------------------------------------------------ versions.ts
\* Numeric segments of a version string.
versionToArr(v) ==
    CASE v = "1" -> <<1>>
      [] v = "1.0" -> <<1, 0>>
      [] v = "2" -> <<2>>
      [] OTHER -> <<>>

Segment(s, i) == IF i <= Len(s) THEN s[i] ELSE 0

RECURSIVE NewerFrom(_, _, _)
NewerFrom(a, b, i) ==
    IF i > Len(a) /\ i > Len(b) THEN FALSE
    ELSE IF Segment(a, i) > Segment(b, i) THEN TRUE
    ELSE IF Segment(a, i) < Segment(b, i) THEN FALSE
    ELSE NewerFrom(a, b, i + 1)

isNewerVersion(newVersion, currentVersion) ==
    NewerFrom(versionToArr(newVersion), versionToArr(currentVersion), 1)

\* ------------------------------------------------- fetch boundary
\* What fetch.default(url, {timeout: 5000}) settles with: a rejection
\* (transport failure or timeout), no response object, or a response with
\* a status and a body text that is or is not JSON.
Statuses == {200, 299, 300, 404}

Bodies(n) == {[json |-> FALSE, value |-> <<>>]}
            \cup {[json |-> TRUE, value |-> d] : d \in Documents(n)}

Responses(n) ==
    {[kind |-> "rejected", status |-> 0, text |-> [json |-> FALSE, value |-> <<>>]],
     [kind |-> "undefined", status |-> 0, text |-> [json |-> FALSE, value |-> <<>>]]}
    \cup {[kind |-> "response", status |-> s, text |-> b] : s \in Statuses, b \in Bodies(n)}

\* isJsonList without the test of website.
isJsonListNoWebsite(jsonDepList) ==
    \A k \in 1..Len(jsonDepList) :
        LET jsonDep == jsonDepList[k]
        IN  /\ jsonDep.path # Undefined /\ jsonDep.name # Undefined
            /\ jsonDep.uuid # Undefined /\ jsonDep.version # Undefined
            /\ jsonDep.description # Undefined

isJsonList(jsonDepList) ==
    \A k \in 1..Len(jsonDepList) :
        LET jsonDep == jsonDepList[k]
        IN  /\ jsonDep.path # Undefined /\ jsonDep.name # Undefined
            /\ jsonDep.uuid # Undefined /\ jsonDep.version # Undefined
            /\ jsonDep.description # Undefined /\ jsonDep.website # Undefined

Threw(msg) == [ok |-> FALSE, value |-> <<>>, error |-> msg]
Returned(v) == [ok |-> TRUE, value |-> v, error |-> ""]

\* The completion of loadFileFromUrl for a settled fetch: a returned
\* array or a thrown error.
loadFileFromUrl(response) ==
    IF response.kind = "rejected" THEN Threw("FetchError")
    ELSE IF response.kind = "undefined" THEN Threw("Failed to fetch file")
    ELSE IF response.status >= 200 /\ response.status <= 300
         THEN IF ~response.text.json THEN Threw("SyntaxError")
              ELSE IF isJsonList(response.text.value)
                   THEN Returned(response.text.value)
                   ELSE Threw("Incorrect JSON format")
         ELSE Threw("Bad status")

getAvailableDependencies(response) == loadFileFromUrl(response)

\* Whether loadFileFromUrl gets as far as line 182, and the array it hands
\* to isJsonList there.
Validates(response) ==
    /\ response.kind = "response"
    /\ response.status >= 200 /\ response.status <= 300
    /\ response.text.json

LacksField(jsonDep) ==
    \E f \in {"path", "name", "uuid", "version", "description", "website"} :
        jsonDep[f] = Undefined

\* What a run notes of the array its fetch decoded: the number of elements
\* (-1 when no array reached isJsonList) and how many of them lack a field.
Decoded(response) ==
    IF Validates(response)
    THEN [elements |-> Len(response.text.value),
          lacking |-> Cardinality({k \in 1..Len(response.text.value) :
                                     LacksField(response.text.value[k])})]
    ELSE [elements |-> -1, lacking |-> 0]

\* --------------------------------------------------- sortVersions
\* compareFn with the arguments of isNewerVersion exchanged.
compareFnOldestFirst(a, b) ==
    IF isNewerVersion(b.version, a.version) THEN -1
    ELSE IF a.version = b.version THEN 0
    ELSE 1

\* The comparison function handed to Array.prototype.sort.
compareFn(a, b) ==
    IF isNewerVersion(a.version, b.version) THEN -1
    ELSE IF a.version = b.version THEN 0
    ELSE 1

IndexOrders(n) == {f \in [1..n -> 1..n] : \A i, j \in 1..n : f[i] = f[j] => i = j}

\* x may stand before y in the sorted array when an answer of the
\* comparison function allows it.
MayPrecede(x, y) == compareFn(x, y) <= 0 \/ compareFn(y, x) >= 0

\* sortVersions that returns the array as it came.
sortVersionsUnsorted(versionList) == {versionList}

\* The arrays Array.prototype.sort can leave: the comparison function
\* answers 1 in both directions for two versions that differ textually and
\* of which neither is newer, so the order of such a pair depends on which
\* of the two comparisons the engine's sort asks for.
sortVersions(versionList) ==
    LET n == Len(versionList)
    IN  {s \in {[i \in 1..n |-> versionList[f[i]]] : f \in IndexOrders(n)} :
            \A i, j \in 1..n : i < j => MayPrecede(s[i], s[j])}

\* ------------------------------------------------ reconciliation
\* versionEntry with the comparison's arguments exchanged.
versionEntrySwapped(ad, id) ==
    IF isNewerVersion(id.version, ad.version)
    THEN [version |-> ad.version, buttonText |-> "Update"]
    ELSE IF ad.version = id.version
         THEN [version |-> ad.version, buttonText |-> "To Latest"]
         ELSE [version |-> ad.version, buttonText |-> "Downgrade"]

\* Lines 122-128: the entry pushed for a catalog entry of the same uuid.
versionEntry(ad, id) ==
    IF isNewerVersion(ad.version, id.version)
    THEN [version |-> ad.version, buttonText |-> "Update"]
    ELSE IF ad.version = id.version
         THEN [version |-> ad.version, buttonText |-> "To Latest"]
         ELSE [version |-> ad.version, buttonText |-> "Downgrade"]

\* versionListOf that matches on the name.
RECURSIVE versionListOfByName(_, _)
versionListOfByName(id, deps) ==
    IF deps = <<>> THEN <<>>
    ELSE LET ad == Head(deps)
         IN  IF id.name = ad.name
             THEN <<versionEntry(ad, id)>> \o versionListOfByName(id, Tail(deps))
             ELSE versionListOfByName(id, Tail(deps))

\* Lines 118-130: the inner loop over availableDeps for one installed
\* dependency.
RECURSIVE versionListOf(_, _)
versionListOf(id, deps) ==
    IF deps = <<>> THEN <<>>
    ELSE LET ad == Head(deps)
         IN  IF id.uuid = ad.uuid
             THEN <<versionEntry(ad, id)>> \o versionListOf(id, Tail(deps))
             ELSE versionListOf(id, Tail(deps))

\* Lines 117-135: the entries the outer loop pushes onto installedList,
\* one possible result per outcome of the sorts.
RECURSIVE reconcile(_, _)
reconcile(ids, deps) ==
    IF ids = <<>> THEN {<<>>}
    ELSE LET id == Head(ids)
         IN  {<<[name |-> id.name, currentVersion |-> id.version, versionInfo |-> vl]>> \o rest :
                 vl \in sortVersions(versionListOf(id, deps)),
                 rest \in reconcile(Tail(ids), deps)}

\* ------------------------------------------------- deduplication
\* Array.prototype.findIndex: the first index whose uuid matches, or -1.
findIndex(list, uuid) ==
    IF \E k \in 1..Len(list) : list[k].uuid = uuid
    THEN CHOOSE k \in 1..Len(list) :
            /\ list[k].uuid = uuid
            /\ \A m \in 1..(k - 1) : list[m].uuid # uuid
    ELSE -1

\* groupStep without the lookup: every dep is pushed.
groupStepAlwaysPush(list, dep) == Append(list, dep)

\* groupStep that also replaces the held entry on a tie.
groupStepReplaceOnTie(list, dep) ==
    LET foundDep == findIndex(list, dep.uuid)
    IN  IF foundDep < 0 THEN Append(list, dep)
        ELSE IF ~isNewerVersion(list[foundDep].version, dep.version)
             THEN [list EXCEPT ![foundDep] = dep]
             ELSE list

\* Lines 141-146: the body of the forEach for one dep.
groupStep(list, dep) ==
    LET foundDep == findIndex(list, dep.uuid)
    IN  IF foundDep < 0 THEN Append(list, dep)
        ELSE IF isNewerVersion(dep.version, list[foundDep].version)
             THEN [list EXCEPT ![foundDep] = dep]
             ELSE list

\* Lines 140-147: availableDeps folded into availableDepsList.
RECURSIVE groupAvailable(_, _)
groupAvailable(list, deps) ==
    IF deps = <<>> THEN list
    ELSE groupAvailable(groupStep(list, Head(deps)), Tail(deps))

\* ------------------------------------------------------- the provider
VARIABLES
    view,               \* _view is set
    installedDeps,      \* this.installedDeps
    availableDeps,      \* this.availableDeps
    availableDepsList,  \* this.availableDepsList
    installedList,      \* this.installedList
    runs,               \* the calls of resolveWebviewView and their refresh runs
    calls,              \* number of calls of resolveWebviewView so far
    posts,              \* the updateDependecies messages the webview received
    load                \* a call of loadFileFromUrl taken alone: the response
                        \* its fetch settles with and how the call completes

vars == <<view, installedDeps, availableDeps, availableDepsList, installedList,
          runs, calls, posts, load>>

fields == <<installedDeps, availableDeps, availableDepsList, installedList>>

Calls == 1..MaxStarts

\* A call that has not happened yet. installed is the array its
\* getCurrentlyInstalledLibraries resolved with, catalog the array its
\* getAvailableDependencies resolved with, pushed the entries it pushed onto
\* installedList, error the message of the error its promise rejected with,
\* alone whether no earlier run was still suspended when it was called,
\* decoded what Decoded says of the response its fetch settled with.
IdleRun ==
    [pc |-> "idle", installed |-> <<>>, catalog |-> <<>>, pushed |-> <<>>,
     error |-> "", alone |-> FALSE, decoded |-> [elements |-> -1, lacking |-> 0]]

Pending == [ok |-> FALSE, value |-> <<>>, error |-> "pending"]

NoResponse == [kind |-> "none", status |-> 0, text |-> [json |-> FALSE, value |-> <<>>]]

Provider ==
    /\ view = FALSE
    /\ installedDeps = <<>>
    /\ availableDeps = <<>>
    /\ availableDepsList = <<>>
    /\ installedList = <<>>
    /\ runs = [r \in Calls |-> IdleRun]
    /\ calls = 0
    /\ posts = <<>>

Init ==
    /\ Provider
    /\ load = [response |-> NoResponse, result |-> Pending]

Suspended(r) == runs[r].pc \in {"awaitInstalled", "awaitFetch"}

\* updateDependencies, called by run r with the lists as it leaves them.
updateDependencies(r, installed, available) ==
    IF view
    THEN posts' = Append(posts, [run |-> r, installed |-> installed, available |-> available])
    ELSE UNCHANGED posts

\* resolveWebviewView with a workspace: _view is set and refresh(wp) is
\* called, which suspends in getCurrentlyInstalledLibraries.
ResolveWebviewView(r, maxCalls) ==
    /\ calls < maxCalls
    /\ r = calls + 1
    /\ calls' = r
    /\ view' = TRUE
    /\ runs' = [runs EXCEPT ![r].pc = "awaitInstalled",
                            ![r].alone = \A q \in Calls : ~Suspended(q)]
    /\ UNCHANGED <<fields, posts, load>>

\* resolveWebviewView without a workspace that goes on to refresh an empty
\* installed array instead of returning.
ResolveNoWorkspaceRefreshes(r, maxCalls) ==
    /\ calls < maxCalls
    /\ r = calls + 1
    /\ calls' = r
    /\ view' = TRUE
    /\ runs' = [runs EXCEPT ![r].pc = "noWorkspace"]
    /\ installedDeps' = <<>>
    /\ availableDepsList' = groupAvailable(availableDepsList, availableDeps)
    /\ posts' = Append(posts, [run |-> r, installed |-> installedList,
                                available |-> availableDepsList'])
    /\ UNCHANGED <<availableDeps, installedList, load>>

\* resolveWebviewView without a workspace: _view is set, the warning is
\* logged and the call returns.
ResolveNoWorkspace(r, maxCalls) ==
    /\ calls < maxCalls
    /\ r = calls + 1
    /\ calls' = r
    /\ view' = TRUE
    /\ runs' = [runs EXCEPT ![r].pc = "noWorkspace"]
    /\ UNCHANGED <<fields, posts, load>>

\* refresh resumes with a non-empty installed array and suspends in
\* getAvailableDependencies.
RefreshInstalled(r, maxInstalled) ==
    /\ runs[r].pc = "awaitInstalled"
    /\ \E libs \in InstalledLists(maxInstalled) :
        /\ Len(libs) # 0
        /\ installedDeps' = libs
        /\ runs' = [runs EXCEPT ![r].pc = "awaitFetch", ![r].installed = libs]
    /\ UNCHANGED <<view, availableDeps, availableDepsList, installedList, calls, posts, load>>

\* refresh resumes with an empty installed array: no fetch, then lines
\* 140-149.
RefreshNoneInstalled(r) ==
    /\ runs[r].pc = "awaitInstalled"
    /\ installedDeps' = <<>>
    /\ availableDepsList' = groupAvailable(availableDepsList, availableDeps)
    /\ updateDependencies(r, installedList, availableDepsList')
    /\ runs' = [runs EXCEPT ![r].pc = "done"]
    /\ UNCHANGED <<view, availableDeps, installedList, calls, load>>

\* getAvailableDependencies throws: the promise of refresh rejects.
FetchThrew(r, maxCatalog) ==
    /\ runs[r].pc = "awaitFetch"
    /\ \E response \in Responses(maxCatalog) :
        LET got == getAvailableDependencies(response)
        IN  /\ ~got.ok
            /\ runs' = [runs EXCEPT ![r].pc = "rejected", ![r].error = got.error,
                                    ![r].decoded = Decoded(response)]
    /\ UNCHANGED <<view, fields, calls, posts, load>>

\* FetchReturned with updateDependencies called between the two passes.
FetchReturnedPostsEarly(r, maxCatalog) ==
    /\ runs[r].pc = "awaitFetch"
    /\ \E response \in Responses(maxCatalog) :
        LET got == getAvailableDependencies(response)
        IN  /\ got.ok
            /\ availableDeps' = got.value
            /\ \E pushed \in reconcile(installedDeps, got.value) :
                /\ installedList' = installedList \o pushed
                /\ runs' = [runs EXCEPT ![r].pc = "done", ![r].catalog = got.value,
                                        ![r].pushed = pushed,
                                        ![r].decoded = Decoded(response)]
            /\ availableDepsList' = groupAvailable(availableDepsList, got.value)
            /\ updateDependencies(r, installedList', availableDepsList)
    /\ UNCHANGED <<view, installedDeps, calls, load>>

\* getAvailableDependencies returns: lines 115-149 run to the end.
FetchReturned(r, maxCatalog) ==
    /\ runs[r].pc = "awaitFetch"
    /\ \E response \in Responses(maxCatalog) :
        LET got == getAvailableDependencies(response)
        IN  /\ got.ok
            /\ availableDeps' = got.value
            /\ \E pushed \in reconcile(installedDeps, got.value) :
                /\ installedList' = installedList \o pushed
                /\ runs' = [runs EXCEPT ![r].pc = "done", ![r].catalog = got.value,
                                        ![r].pushed = pushed,
                                        ![r].decoded = Decoded(response)]
            /\ availableDepsList' = groupAvailable(availableDepsList, got.value)
            /\ updateDependencies(r, installedList', availableDepsList')
    /\ UNCHANGED <<view, installedDeps, calls, load>>

\* Overlapping runs.
Next ==
    \E r \in Calls :
        \/ ResolveWebviewView(r, MaxStarts)
        \/ ResolveNoWorkspace(r, MaxStarts)
        \/ RefreshInstalled(r, MaxInstalled)
        \/ RefreshNoneInstalled(r)
        \/ FetchThrew(r, MaxCatalog)
        \/ FetchReturned(r, MaxCatalog)

Spec == Init /\ [][Next]_vars

\* The first call alone.
NextRun ==
    \/ ResolveWebviewView(1, 1)
    \/ ResolveNoWorkspace(1, 1)
    \/ RefreshInstalled(1, RunMaxInstalled)
    \/ RefreshNoneInstalled(1)
    \/ FetchThrew(1, RunMaxCatalog)
    \/ FetchReturned(1, RunMaxCatalog)

SpecRun == Init /\ [][NextRun]_vars

\* loadFileFromUrl alone, for every response its fetch can settle with.
InitLoad ==
    /\ Provider
    /\ load \in {[response |-> response, result |-> Pending] :
                    response \in Responses(RunMaxCatalog)}

LoadFile ==
    /\ load.response.kind # "none"
    /\ load.result = Pending
    /\ load' = [load EXCEPT !.result = loadFileFromUrl(load.response)]
    /\ UNCHANGED <<view, fields, runs, calls, posts>>

SpecLoad == InitLoad /\ [][LoadFile]_vars

\* ================================================================ claims
Finished(r) == runs[r].pc = "done"

\* The messages run r posted.
PostsOf(r) == SelectSeq(posts, LAMBDA m : m.run = r)

\* -------------------------------------------------------------------- C1
\* C1: a run whose catalog fetch failed still completes and posts a message
\* whose available list is empty and whose installed list has one entry
\* with no candidates per installed component; the run is never rejected.
C1_FetchFailureAbsorbed ==
    \A r \in Calls :
        runs[r].error # "" =>
            /\ Finished(r)
            /\ Len(PostsOf(r)) = 1
            /\ PostsOf(r)[1].available = <<>>
            /\ Len(PostsOf(r)[1].installed) = Len(runs[r].installed)
            /\ \A k \in 1..Len(PostsOf(r)[1].installed) :
                    PostsOf(r)[1].installed[k].versionInfo = <<>>

\* -------------------------------------------------------------------- C2
\* C2: two runs in sequence with the same installed array and the same
\* fetched catalog post the same installed and available lists.
C2_RefreshIdempotent ==
    \A r \in Calls \ {1} :
        ( /\ Finished(r - 1) /\ Finished(r)
          /\ runs[r - 1].alone /\ runs[r].alone
          /\ runs[r].installed = runs[r - 1].installed
          /\ runs[r].catalog = runs[r - 1].catalog )
        => /\ PostsOf(r)[1].installed = PostsOf(r - 1)[1].installed
           /\ PostsOf(r)[1].available = PostsOf(r - 1)[1].available

\* -------------------------------------------------------------------- C3
\* C3: the installed list a run posts after a successful fetch has one
\* entry per installed component of that run, in the order of the installed
\* array, with that component's name and version.
C3_OneRecommendationEach ==
    \A r \in Calls :
        (Finished(r) /\ runs[r].installed # <<>>) =>
            LET posted == PostsOf(r)[1].installed
                ids == runs[r].installed
            IN  /\ Len(posted) = Len(ids)
                /\ \A k \in 1..Len(ids) :
                        /\ posted[k].name = ids[k].name
                        /\ posted[k].currentVersion = ids[k].version

\* -------------------------------------------------------------------- C4
NoDuplicateUuid(list) ==
    \A i, j \in 1..Len(list) : list[i].uuid = list[j].uuid => i = j

\* C4: availableDepsList, and the available list of every posted message,
\* never holds two entries with the same uuid.
C4_AvailableUniqueByUuid ==
    /\ NoDuplicateUuid(availableDepsList)
    /\ \A k \in 1..Len(posts) : NoDuplicateUuid(posts[k].available)

\* A second run has folded a catalog with a repeated uuid into a list that
\* already held that uuid.
C4_Witness ==
    /\ Finished(1) /\ Finished(2)
    /\ Len(runs[1].catalog) = 2 /\ Len(runs[2].catalog) = 2
    /\ runs[2].catalog[1].uuid = runs[2].catalog[2].uuid
    /\ runs[1].catalog[1].uuid = runs[2].catalog[1].uuid
    /\ runs[1].catalog[2].uuid # runs[1].catalog[1].uuid
    /\ Len(availableDepsList) = 2

\* -------------------------------------------------------------------- C5
\* C5: every entry of the available list a run posts after its fetch is an
\* entry of the catalog that run fetched.
C5_AvailableFromThisRun ==
    \A k \in 1..Len(posts) :
        runs[posts[k].run].installed # <<>> =>
        \A i \in 1..Len(posts[k].available) :
            \E j \in 1..Len(runs[posts[k].run].catalog) :
                posts[k].available[i] = runs[posts[k].run].catalog[j]

\* -------------------------------------------------------------------- C6
ButtonTexts == {"Update", "To Latest", "Downgrade"}

VersionEntries == [version : Versions, buttonText : ButtonTexts]

Count(seq, e) == Cardinality({k \in 1..Len(seq) : seq[k] = e})

\* The label the claim gives a catalog version c against an installed
\* version i.
LabelOf(c, i) ==
    IF isNewerVersion(c, i) THEN "Update"
    ELSE IF c = i THEN "To Latest"
    ELSE "Downgrade"

\* C6: for every installed component and every catalog entry of its uuid
\* there is one candidate, labelled Update when the entry's version is
\* newer than the installed one, To Latest when the two are textually
\* equal, Downgrade otherwise, and there is no other candidate.
C6_Classification ==
    Finished(1) =>
        \A k \in 1..Len(runs[1].installed) :
            LET id == runs[1].installed[k]
                cat == runs[1].catalog
                info == installedList[k].versionInfo
            IN  \A e \in VersionEntries :
                    Count(info, e) =
                        IF e.buttonText = LabelOf(e.version, id.version)
                        THEN Cardinality({j \in 1..Len(cat) :
                                /\ cat[j].uuid = id.uuid
                                /\ cat[j].version = e.version})
                        ELSE 0

\* One installed component got candidates of all three labels.
C6_Witness ==
    /\ Finished(1)
    /\ \E k \in 1..Len(installedList) :
        \A b \in ButtonTexts :
            \E m \in 1..Len(installedList[k].versionInfo) :
                installedList[k].versionInfo[m].buttonText = b

\* -------------------------------------------------------------------- C7
OfUuid(list, u) == SelectSeq(list, LAMBDA d : d.uuid = u)

\* The entries of uuid u in the order the scan meets them: the one already
\* held, then the catalog's.
Scanned(before, cat, u) == OfUuid(before, u) \o OfUuid(cat, u)

\* The first entry of s that no entry of s is newer than.
FirstNewest(s) ==
    s[CHOOSE m \in 1..Len(s) :
        /\ \A j \in 1..Len(s) : ~isNewerVersion(s[j].version, s[m].version)
        /\ \A j \in 1..(m - 1) :
                \E n \in 1..Len(s) : isNewerVersion(s[n].version, s[j].version)]

FirstIndex(list, u) == CHOOSE k \in 1..Len(list) :
    list[k].uuid = u /\ \A m \in 1..(k - 1) : list[m].uuid # u

Held(list, u) == \E k \in 1..Len(list) : list[k].uuid = u

DedupScan(before, cat, after) ==
    /\ Len(after) >= Len(before)
    /\ \A k \in 1..Len(before) : after[k].uuid = before[k].uuid
    /\ \A k \in 1..Len(cat) : Held(after, cat[k].uuid)
    /\ \A k \in (Len(before) + 1)..Len(after) :
        /\ ~Held(before, after[k].uuid)
        /\ Held(cat, after[k].uuid)
        /\ \A m \in (Len(before) + 1)..(k - 1) :
                FirstIndex(cat, after[m].uuid) < FirstIndex(cat, after[k].uuid)
    /\ \A k \in 1..Len(after) :
        /\ after[k] = FirstNewest(Scanned(before, cat, after[k].uuid))
        /\ \A j \in 1..Len(cat) :
                cat[j].uuid = after[k].uuid
                    => ~isNewerVersion(cat[j].version, after[k].version)

\* C7: the scan of a catalog leaves every uuid in the slot of its first
\* occurrence, holding the first entry met that no entry of that uuid is
\* newer than: an entry replaces the held one only when strictly newer.
C7_DedupFirstSlotNewest ==
    [][\A r \in Calls :
        /\ (runs[r].pc = "awaitFetch" /\ runs'[r].pc = "done")
            => DedupScan(availableDepsList, runs'[r].catalog, availableDepsList')
        /\ (runs[r].pc = "awaitInstalled" /\ runs'[r].pc = "done")
            => DedupScan(availableDepsList, availableDeps, availableDepsList')]_vars

\* The second run replaced the content of the first slot by a newer entry
\* of the same uuid and left a tied entry of the second slot alone.
C7_Witness ==
    /\ Finished(1) /\ Finished(2)
    /\ Len(posts) = 2 /\ posts[2].run = 2
    /\ Len(posts[1].available) = 2 /\ Len(posts[2].available) = 2
    /\ Len(runs[2].catalog) = 2
    /\ posts[2].available[1] = runs[2].catalog[1]
    /\ posts[2].available[1].uuid = posts[1].available[1].uuid
    /\ isNewerVersion(posts[2].available[1].version, posts[1].available[1].version)
    /\ runs[2].catalog[2].uuid = posts[1].available[2].uuid
    /\ runs[2].catalog[2].version # posts[1].available[2].version
    /\ ~isNewerVersion(posts[1].available[2].version, runs[2].catalog[2].version)
    /\ posts[2].available[2] = posts[1].available[2]

\* -------------------------------------------------------------------- C8
Restrict(list, vs) == SelectSeq(list, LAMBDA e : e.version \in vs)

C9_SortedNewestFirst ==
    Finished(1) =>
        \A k \in 1..Len(runs[1].installed) :
            LET input == versionListOf(runs[1].installed[k], runs[1].catalog)
                out == installedList[k].versionInfo
            IN  /\ \A e \in VersionEntries : Count(out, e) = Count(input, e)
                /\ \A p, q \in 1..Len(out) :
                        p < q => ~isNewerVersion(out[q].version, out[p].version)

\* Three candidates that entered with the newest one last.
C9_Witness ==
    /\ Finished(1)
    /\ \E k \in 1..Len(runs[1].installed) :
        LET input == versionListOf(runs[1].installed[k], runs[1].catalog)
            out == installedList[k].versionInfo
        IN  /\ Len(input) = 3
            /\ isNewerVersion(input[3].version, input[1].version)
            /\ isNewerVersion(input[3].version, input[2].version)
            /\ out[1] = input[3]

\* ------------------------------------------------------------------- C10
\* C10: the entries a run pushes are computed from the installed array that
\* run read and the catalog that run fetched.
C10_RunsIsolated ==
    \A r \in Calls :
        (Finished(r) /\ runs[r].installed # <<>>) =>
            runs[r].pushed \in reconcile(runs[r].installed, runs[r].catalog)

\* ------------------------------------------------------------------- C11
AllEntries ==
    {availableDeps[k] : k \in 1..Len(availableDeps)}
    \cup {availableDepsList[k] : k \in 1..Len(availableDepsList)}
    \cup UNION {{posts[k].available[j] : j \in 1..Len(posts[k].available)} :
                    k \in 1..Len(posts)}

\* C11: a decoded array with an element that lacks a required field is
\* refused whole, nothing of it reaching the fields, the candidate lists or
\* a posted message; an array whose elements all have the six fields is
\* accepted with all its elements.
C11_AllOrNothing ==
    /\ \A e \in AllEntries : ~LacksField(e)
    /\ runs[1].decoded.lacking > 0 =>
        /\ runs[1].pc = "rejected"
        /\ runs[1].error = "Incorrect JSON format"
        /\ availableDeps = <<>> /\ availableDepsList = <<>>
        /\ installedList = <<>> /\ posts = <<>>
    /\ (runs[1].decoded.elements >= 0 /\ runs[1].decoded.lacking = 0) =>
        /\ Finished(1)
        /\ Len(runs[1].catalog) = runs[1].decoded.elements
        /\ availableDeps = runs[1].catalog

\* An array of three elements, two of them well-formed, was refused.
C11_Witness ==
    /\ runs[1].pc = "rejected"
    /\ runs[1].decoded.elements = 3
    /\ runs[1].decoded.lacking = 1
    /\ posts = <<>>

\* ------------------------------------------------------------------- C12
\* C12: a call of resolveWebviewView that finds no workspace changes none
\* of the four array fields and posts nothing, and no refresh run ever
\* belongs to it: it reads no installed array, issues no fetch, pushes and
\* posts nothing, then and later.
C12_NoWorkspaceSkipsRun ==
    [][\A r \in Calls :
        /\ (runs[r].pc = "idle" /\ runs'[r].pc = "noWorkspace")
            => UNCHANGED <<fields, posts>>
        /\ runs[r].pc = "noWorkspace" => runs'[r].pc = "noWorkspace"
        /\ runs'[r].pc = "noWorkspace" =>
            /\ runs'[r] = [IdleRun EXCEPT !.pc = "noWorkspace"]
            /\ \A k \in 1..Len(posts') : posts'[k].run # r]_vars

\* The second call found no workspace after the first had published.
C12_Witness ==
    /\ Finished(1)
    /\ runs[2].pc = "noWorkspace"
    /\ Len(posts) = 1
    /\ installedList # <<>>
    /\ availableDepsList # <<>>

\* ------------------------------------------------------------------- C13
\* C13: the candidate list of an installed component has one candidate for
\* each catalog entry of the component's uuid, repeated entries included,
\* and none for an entry of another uuid whatever its name or version.
C13_MatchByUuidOnly ==
    Finished(1) =>
        \A k \in 1..Len(runs[1].installed) :
            LET id == runs[1].installed[k]
                cat == runs[1].catalog
                info == installedList[k].versionInfo
            IN  /\ Len(info) = Cardinality({j \in 1..Len(cat) : cat[j].uuid = id.uuid})
                /\ \A v \in Versions :
                        Cardinality({m \in 1..Len(info) : info[m].version = v})
                            = Cardinality({j \in 1..Len(cat) :
                                    cat[j].uuid = id.uuid /\ cat[j].version = v})

\* The catalog held the same entry of the installed uuid twice and an entry
\* of another uuid with the installed component's name and version.
C13_Witness ==
    /\ Finished(1)
    /\ Len(runs[1].installed) = 1
    /\ Len(runs[1].catalog) = 3
    /\ LET id == runs[1].installed[1]
           cat == runs[1].catalog
       IN  /\ cat[1] = cat[3]
           /\ cat[1].uuid = id.uuid
           /\ cat[1].name # id.name
           /\ cat[2].uuid # id.uuid
           /\ cat[2].name = id.name
           /\ cat[2].version = id.version
           /\ Len(installedList[1].versionInfo) = 2

C15_BadStatusOutside2xx ==
    (load.result # Pending /\ load.response.kind = "response") =>
        IF load.response.status >= 200 /\ load.response.status <= 299
        THEN load.result.error # "Bad status"
        ELSE /\ ~load.result.ok
             /\ load.result.error = "Bad status"
             /\ load.result.value = <<>>

\* ------------------------------------------------------------------- C16
\* C16: in every candidate list no candidate labelled Update stands after
\* one labelled To Latest or Downgrade, also when the list holds versions
\* that differ textually and of which neither is newer.
C16_UpdatesFirst ==
    \A k \in 1..Len(installedList) :
        LET info == installedList[k].versionInfo
        IN  \A p, q \in 1..Len(info) :
                (p < q /\ info[q].buttonText = "Update")
                    => info[p].buttonText = "Update"

\* An Update stands before a textually different tie of the installed
\* version, which the sort left in front of the installed version itself.
C16_Witness ==
    /\ Finished(1)
    /\ \E k \in 1..Len(installedList) :
        LET info == installedList[k].versionInfo
        IN  /\ Len(info) = 3
            /\ info[1].buttonText = "Update"
            /\ info[2].buttonText = "Downgrade"
            /\ info[3].buttonText = "To Latest"
            /\ ~isNewerVersion(info[3].version, info[2].version)

\* ------------------------------------------------------------------- C17
\* C17: a run posts at most one message, in the step that ends it, and the
\* message carries installedList and availableDepsList as that step leaves
\* them; a run that has ended posts no more.
C17_PostOnceAtEnd ==
    [][\A r \in Calls :
        /\ Len(PostsOf(r)') <= 1
        /\ PostsOf(r)' # PostsOf(r) =>
            /\ runs[r].pc # "done" /\ runs'[r].pc = "done"
            /\ posts' = Append(posts, [run |-> r, installed |-> installedList',
                                       available |-> availableDepsList'])
        /\ (runs[r].pc # "done" /\ runs'[r].pc = "done") => Len(PostsOf(r)') = 1]_vars

\* The second run posted lists that both differ from the first run's.
C17_Witness ==
    /\ Finished(1) /\ Finished(2)
    /\ Len(posts) = 2
    /\ posts[2].run = 2
    /\ runs[2].pushed # <<>>
    /\ Len(posts[2].available) > Len(posts[1].available)
    /\ Len(posts[1].available) > 0

====
